---- MODULE Spec2Model ----
(***************************************************************************)
(* Model of src/region.rs: the Region enum, its Display implementation,    *)
(* its FromStr implementation and the ParseRegionError type.               *)
(*                                                                         *)
(* The library itself keeps no state.  The state of the model is the state *)
(* of its callers: a sequential caller that keeps the records of its two   *)
(* most recent calls (last, prev), and a set of concurrent callers that    *)
(* each invoke an operation and later receive its result (pc, req, rsp).   *)
(***************************************************************************)
EXTENDS Integers, Sequences, FiniteSets, TLC

VARIABLES last, prev, pc, req, rsp

vars == <<last, prev, pc, req, rsp>>
seqVars == <<last, prev>>
concVars == <<pc, req, rsp>>

(***************************************************************************)
(* Bounds of the model.                                                    *)
(***************************************************************************)
\* number of concurrent callers
NumCallers == 2
\* longest run of whitespace put before or after an identifier
MaxPad == 1
\* most characters cut from the end of an identifier to make a prefix
MaxCut == 2

(***************************************************************************)
(* pub enum Region: a closed set of ten variants.                          *)
(***************************************************************************)
Region ==
    { "ApNortheast1", "ApSoutheast1", "ApSoutheast2", "EuCentral1", "EuWest1",
      "SaEast1", "UsEast1", "UsWest1", "UsWest2", "CnNorth1" }

(***************************************************************************)
(* mod tests: the identifier the tests pair with each variant, in both     *)
(* directions (from_str and region_display).                               *)
(***************************************************************************)
TestIdentifier ==
    [ ApNortheast1 |-> "ap-northeast-1",
      ApSoutheast1 |-> "ap-southeast-1",
      ApSoutheast2 |-> "ap-southeast-2",
      EuCentral1   |-> "eu-central-1",
      EuWest1      |-> "eu-west-1",
      SaEast1      |-> "sa-east-1",
      UsEast1      |-> "us-east-1",
      UsWest1      |-> "us-west-1",
      UsWest2      |-> "us-west-2",
      CnNorth1     |-> "cn-north-1" ]

Identifiers == { TestIdentifier[r] : r \in Region }

(***************************************************************************)
(* Result<Region, ParseRegionError> and the struct ParseRegionError.       *)
(***************************************************************************)
Ok(r) == [ok |-> TRUE, region |-> r]

Err(e) == [ok |-> FALSE, error |-> e]

ParseRegionError(m) == [message |-> m]

(***************************************************************************)
(* impl Display for Region: the text written to the formatter.             *)
(***************************************************************************)
\* a copied arm left unedited: UsWest1 is written as "us-west-2"
Region_fmt_slip(self) ==
    IF self = "UsWest1" THEN "us-west-2" ELSE TestIdentifier[self]

\* the variant written with its derived Debug text instead of its identifier
Region_fmt_debug(self) == self

Region_fmt(self) ==
    CASE self = "ApNortheast1" -> "ap-northeast-1"
      [] self = "ApSoutheast1" -> "ap-southeast-1"
      [] self = "ApSoutheast2" -> "ap-southeast-2"
      [] self = "EuCentral1"   -> "eu-central-1"
      [] self = "EuWest1"      -> "eu-west-1"
      [] self = "SaEast1"      -> "sa-east-1"
      [] self = "UsEast1"      -> "us-east-1"
      [] self = "UsWest1"      -> "us-west-1"
      [] self = "UsWest2"      -> "us-west-2"
      [] self = "CnNorth1"     -> "cn-north-1"

(***************************************************************************)
(* ParseRegionError::new: format!("Not a valid AWS region: {}", input).    *)
(***************************************************************************)
\* the input formatted with {:?}, which quotes it
ParseRegionError_new_debug(input) ==
    ParseRegionError("Not a valid AWS region: \"" \o input \o "\"")

ParseRegionError_new(input) ==
    ParseRegionError("Not a valid AWS region: " \o input)

(***************************************************************************)
(* impl FromStr for Region: an exact match on the string, arms in order.   *)
(***************************************************************************)
\* from_str as the tests' table has it: what the faulty variants below keep
from_str_table(s) ==
    IF s \in Identifiers
    THEN Ok(CHOOSE r \in Region : TestIdentifier[r] = s)
    ELSE Err(ParseRegionError_new(s))

\* a copied arm left half edited: "us-west-1" gives UsWest2
from_str_slip(s) ==
    IF s = "us-west-1" THEN Ok("UsWest2") ELSE from_str_table(s)

\* the arm of the variant added last is missing
from_str_missing(s) ==
    IF s = "cn-north-1" THEN Err(ParseRegionError_new(s)) ELSE from_str_table(s)

\* the match ignores letter case
from_str_nocase(s) ==
    IF s \in { "US-EAST-1", "Us-east-1" } THEN Ok("UsEast1") ELSE from_str_table(s)

\* the match is on the trimmed input
from_str_trim(s) ==
    IF s \in { " us-east-1", "us-east-1 ", "us-east-1\n", "\tus-east-1" }
    THEN Ok("UsEast1")
    ELSE from_str_table(s)

from_str(s) ==
    CASE s = "ap-northeast-1" -> Ok("ApNortheast1")
      [] s = "ap-southeast-1" -> Ok("ApSoutheast1")
      [] s = "ap-southeast-2" -> Ok("ApSoutheast2")
      [] s = "eu-central-1"   -> Ok("EuCentral1")
      [] s = "eu-west-1"      -> Ok("EuWest1")
      [] s = "sa-east-1"      -> Ok("SaEast1")
      [] s = "us-east-1"      -> Ok("UsEast1")
      [] s = "us-west-1"      -> Ok("UsWest1")
      [] s = "us-west-2"      -> Ok("UsWest2")
      [] s = "cn-north-1"     -> Ok("CnNorth1")
      [] OTHER                -> Err(ParseRegionError_new(s))

(***************************************************************************)
(* impl Error for ParseRegionError: description() returns the message.     *)
(***************************************************************************)
\* description() as a fixed text, without the input
description_static(self) == "Not a valid AWS region"

description(self) == self.message

(***************************************************************************)
(* impl Display for ParseRegionError: writes the message.                  *)
(***************************************************************************)
ParseRegionError_fmt(self) == self.message

(***************************************************************************)
(* The inputs the callers draw from.  RegionChars spells the identifiers   *)
(* character by character so that near misses of them can be computed.     *)
(***************************************************************************)
RegionChars ==
    [ ApNortheast1 |-> <<"a","p","-","n","o","r","t","h","e","a","s","t","-","1">>,
      ApSoutheast1 |-> <<"a","p","-","s","o","u","t","h","e","a","s","t","-","1">>,
      ApSoutheast2 |-> <<"a","p","-","s","o","u","t","h","e","a","s","t","-","2">>,
      EuCentral1   |-> <<"e","u","-","c","e","n","t","r","a","l","-","1">>,
      EuWest1      |-> <<"e","u","-","w","e","s","t","-","1">>,
      SaEast1      |-> <<"s","a","-","e","a","s","t","-","1">>,
      UsEast1      |-> <<"u","s","-","e","a","s","t","-","1">>,
      UsWest1      |-> <<"u","s","-","w","e","s","t","-","1">>,
      UsWest2      |-> <<"u","s","-","w","e","s","t","-","2">>,
      CnNorth1     |-> <<"c","n","-","n","o","r","t","h","-","1">> ]

RECURSIVE Join(_)
Join(cs) == IF cs = <<>> THEN "" ELSE Head(cs) \o Join(Tail(cs))

\* the variants whose spelling is their identifier (all ten)
Spelled == { r \in Region : Join(RegionChars[r]) = TestIdentifier[r] }

UpperOf ==
    [ a |-> "A", c |-> "C", e |-> "E", h |-> "H", l |-> "L", n |-> "N", o |-> "O",
      p |-> "P", r |-> "R", s |-> "S", t |-> "T", u |-> "U", w |-> "W" ]

Upper(ch) == IF ch \in DOMAIN UpperOf THEN UpperOf[ch] ELSE ch

\* cs with the characters at the positions in P upper-cased
UpperAt(cs, P) == [i \in 1..Len(cs) |-> IF i \in P THEN Upper(cs[i]) ELSE cs[i]]

\* inputs that differ from an identifier in letter case only: every letter
\* upper-cased, or the first letter only
CaseVariants ==
    { Join(UpperAt(RegionChars[r], 1..Len(RegionChars[r]))) : r \in Spelled }
        \cup { Join(UpperAt(RegionChars[r], {1})) : r \in Spelled }

RECURSIVE Blanks(_)
\* a run of n spaces
Blanks(n) == IF n = 0 THEN "" ELSE " " \o Blanks(n - 1)

\* inputs with 1..MaxPad spaces before or after an identifier
Padded ==
    { Blanks(n) \o s : n \in 1..MaxPad, s \in Identifiers }
        \cup { s \o Blanks(n) : n \in 1..MaxPad, s \in Identifiers }

\* inputs that are an identifier without its last 1..MaxCut characters
Prefixes ==
    { Join(SubSeq(RegionChars[r], 1, Len(RegionChars[r]) - k)) :
        r \in Spelled, k \in 1..MaxCut }

\* inputs that are an identifier with one more character after it
Extensions == { s \o "0" : s \in Identifiers }

\* further inputs: the tests' "foo", the empty string, an identifier after a
\* tab, before a line end and after a letter, a variant's name, an identifier
\* with other separators, and identifiers of regions outside the enum
Others ==
    { "", "foo", "\tus-east-1", "us-east-1\n", "xus-east-1", "UsEast1",
      "us_east_1", "us-east-2", "eu-west-2" }

Inputs == Identifiers \cup CaseVariants \cup Padded \cup Prefixes \cup Extensions \cup Others

(***************************************************************************)
(* The sequential caller.  Each step is one call of the library; its       *)
(* record becomes last, and the record before it becomes prev.             *)
(***************************************************************************)
NoCall == [op |-> "none"]

\* s.parse::<Region>(), that is Region::from_str(s)
Parse(s) ==
    /\ last' = [op |-> "from_str", input |-> s, result |-> from_str(s)]
    /\ prev' = last
    /\ UNCHANGED concVars

\* r.to_string(): the text Display::fmt writes for r
Show(r) ==
    /\ last' = [op |-> "fmt", region |-> r, output |-> Region_fmt(r)]
    /\ prev' = last
    /\ UNCHANGED concVars

\* r.to_string().parse::<Region>(): the text just produced is parsed
ParseShown ==
    /\ last.op = "fmt"
    /\ Parse(last.output)

\* the ParseRegionError the caller holds, if any
HeldError ==
    IF last.op = "from_str"
    THEN IF last.result.ok THEN {} ELSE { last.result.error }
    ELSE IF last.op \in { "description", "error_fmt" } THEN { last.error } ELSE {}

\* err.description()
Describe ==
    /\ \E e \in HeldError :
          last' = [op |-> "description", error |-> e, output |-> description(e)]
    /\ prev' = last
    /\ UNCHANGED concVars

\* err.to_string(): the text Display::fmt writes for the error
ShowError ==
    /\ \E e \in HeldError :
          last' = [op |-> "error_fmt", error |-> e, output |-> ParseRegionError_fmt(e)]
    /\ prev' = last
    /\ UNCHANGED concVars

(***************************************************************************)
(* The concurrent callers.  A caller invokes an operation (its argument is *)
(* req) and, in a later step, the operation returns (its result is rsp);   *)
(* steps of different callers interleave freely.                           *)
(***************************************************************************)
Callers == 1..NumCallers

ConcStrings == { "us-east-1", "cn-north-1", "US-EAST-1", "foo", "" }

ConcRegions == { "UsEast1", "UsWest2", "CnNorth1" }

NoRequest == [op |-> "none"]

NoResponse == [none |-> TRUE]

CallFromStr(c, s) ==
    /\ pc[c] # "called"
    /\ pc' = [pc EXCEPT ![c] = "called"]
    /\ req' = [req EXCEPT ![c] = [op |-> "from_str", input |-> s]]
    /\ rsp' = [rsp EXCEPT ![c] = NoResponse]
    /\ UNCHANGED seqVars

\* the message is built in a static buffer that is not cleared: while some
\* caller holds an error, the next error's message is appended to that one
ReturnFromStr_buffer(c) ==
    /\ pc[c] = "called"
    /\ req[c].op = "from_str"
    /\ pc' = [pc EXCEPT ![c] = "returned"]
    /\ LET held == { d \in Callers :
                       /\ pc[d] = "returned"
                       /\ req[d].op = "from_str"
                       /\ ~rsp[d].ok }
           own == from_str(req[c].input)
       IN  rsp' = [rsp EXCEPT ![c] =
                     IF own.ok \/ held = {} THEN own
                     ELSE Err(ParseRegionError(
                            rsp[CHOOSE d \in held : TRUE].error.message
                                \o req[c].input))]
    /\ UNCHANGED <<req, seqVars>>

\* the result is written to a slot all callers share
ReturnFromStr_shared(c) ==
    /\ pc[c] = "called"
    /\ req[c].op = "from_str"
    /\ pc' = [pc EXCEPT ![c] = "returned"]
    /\ rsp' = [d \in Callers |->
                 IF d = c \/ (pc[d] = "returned" /\ req[d].op = "from_str")
                 THEN from_str(req[c].input)
                 ELSE rsp[d]]
    /\ UNCHANGED <<req, seqVars>>

ReturnFromStr(c) ==
    /\ pc[c] = "called"
    /\ req[c].op = "from_str"
    /\ pc' = [pc EXCEPT ![c] = "returned"]
    /\ rsp' = [rsp EXCEPT ![c] = from_str(req[c].input)]
    /\ UNCHANGED <<req, seqVars>>

CallFmt(c, r) ==
    /\ pc[c] # "called"
    /\ pc' = [pc EXCEPT ![c] = "called"]
    /\ req' = [req EXCEPT ![c] = [op |-> "fmt", region |-> r]]
    /\ rsp' = [rsp EXCEPT ![c] = NoResponse]
    /\ UNCHANGED seqVars

ReturnFmt(c) ==
    /\ pc[c] = "called"
    /\ req[c].op = "fmt"
    /\ pc' = [pc EXCEPT ![c] = "returned"]
    /\ rsp' = [rsp EXCEPT ![c] = [output |-> Region_fmt(req[c].region)]]
    /\ UNCHANGED <<req, seqVars>>

(***************************************************************************)
(* Specifications.                                                         *)
(***************************************************************************)
Init ==
    /\ last = NoCall
    /\ prev = NoCall
    /\ pc = [c \in Callers |-> "idle"]
    /\ req = [c \in Callers |-> NoRequest]
    /\ rsp = [c \in Callers |-> NoResponse]

Next ==
    \/ \E s \in Inputs : Parse(s)
    \/ \E r \in Region : Show(r)
    \/ ParseShown
    \/ Describe
    \/ ShowError

\* the sequential caller
Spec == Init /\ [][Next]_vars

NextConc ==
    \E c \in Callers :
        \/ \E s \in ConcStrings : CallFromStr(c, s)
        \/ ReturnFromStr(c)
        \/ \E r \in ConcRegions : CallFmt(c, r)
        \/ ReturnFmt(c)

\* the concurrent callers
SpecConc == Init /\ [][NextConc]_vars

(***************************************************************************)
(* The claims.                                                             *)
(***************************************************************************)
Prefix == "Not a valid AWS region: "

Parsed(rec) == rec.op = "from_str"

Accepted(rec) == Parsed(rec) /\ rec.result.ok

Rejected(rec) == Parsed(rec) /\ ~rec.result.ok

Shown(rec) == rec.op = "fmt"

Rendered(rec) == rec.op \in { "description", "error_fmt" }

\* C1: round trip.  When the text Display wrote for a variant r is parsed, the
\* result is Ok(r), the same variant, for every one of the ten variants.
C1_RoundTrip ==
    (Shown(prev) /\ Parsed(last) /\ last.input = prev.output)
        => (last.result.ok /\ last.result.region = prev.region)

C1_Witness ==
    /\ Shown(prev) /\ prev.region = "UsWest1"
    /\ Accepted(last) /\ last.input = prev.output
    /\ last.result.region = "UsWest1"

\* C2: an input that is not one of the ten identifiers (the empty string
\* included) is never parsed to Ok; the error's message is exactly
\* "Not a valid AWS region: " followed by the input unchanged, and that is the
\* text of both description() and Display for the error.
C2_RejectMessage ==
    /\ (Parsed(last) /\ last.input \notin Identifiers)
          => (/\ ~last.result.ok
              /\ last.result.error = [message |-> Prefix \o last.input])
    /\ (Parsed(prev) /\ prev.input \notin Identifiers /\ Rendered(last))
          => (/\ Rejected(prev)
              /\ last.error = prev.result.error
              /\ last.output = Prefix \o prev.input)

C2_Witness ==
    /\ Rejected(prev) /\ prev.input = ""
    /\ last.op = "error_fmt" /\ last.error = prev.result.error
    /\ last.output = "Not a valid AWS region: "

\* C3: each of the ten identifiers is parsed to Ok of its own variant, never
\* to an error or to another variant.
C3_ParseIdentifiers ==
    \A r \in Region :
        (Parsed(last) /\ last.input = TestIdentifier[r])
            => (last.result.ok /\ last.result.region = r)

C3_Witness ==
    /\ Accepted(last) /\ last.input = "cn-north-1"
    /\ last.result.region = "CnNorth1"

\* C4: Display for Region is total: for each of the ten variants it writes
\* that variant's identifier from the table, which is one of the ten
\* identifiers, and it has no other outcome.
C4_DisplayIdentifier ==
    /\ Shown(last) =>
          (/\ last.output = TestIdentifier[last.region]
           /\ last.output \in Identifiers)
    /\ \A r \in Region : ENABLED Show(r)

C4_Witness ==
    /\ Shown(last) /\ last.region = "UsWest2" /\ last.output = "us-west-2"
    /\ Shown(prev) /\ prev.region = "CnNorth1" /\ prev.output = "cn-north-1"

\* C5: the mapping is a bijection.  Two different variants are never written
\* as the same identifier, an identifier is never parsed to two variants, and
\* two different accepted identifiers are never parsed to the same variant.
C5_Bijection ==
    /\ (Shown(prev) /\ Shown(last) /\ prev.region # last.region)
          => prev.output # last.output
    /\ (Accepted(prev) /\ Accepted(last))
          => (prev.input = last.input <=> prev.result.region = last.result.region)

C5_Witness ==
    /\ Shown(prev) /\ prev.region = "UsWest1"
    /\ Shown(last) /\ last.region = "UsWest2"
    /\ prev.output # last.output

\* C6: matching is exact.  An input that differs from an identifier only in
\* letter case, that has whitespace before or after an identifier, or that is
\* a strict prefix or an extension of an identifier is rejected with an error.
C6_ExactMatch ==
    (Parsed(last) /\ last.input \in CaseVariants \cup Padded \cup Prefixes \cup Extensions)
        => (~last.result.ok /\ last.input \notin Identifiers)

C6_Witness ==
    /\ Rejected(last) /\ last.input = "US-EAST-1"
    /\ last.input \in CaseVariants
    /\ Rejected(prev) /\ prev.input \in Padded

\* C9: reverse round trip.  When an input s was parsed to Ok(r), Display
\* writes r as exactly s; the inputs parse accepts are exactly the texts
\* Display writes.
C9_ReverseRoundTrip ==
    /\ (Accepted(prev) /\ Shown(last) /\ last.region = prev.result.region)
          => last.output = prev.input
    /\ Accepted(last) => \E r \in Region : ENABLED
          (Show(r) /\ last'.output = last.input)
    /\ Shown(last) => ENABLED (ParseShown /\ last'.result.ok)

C9_Witness ==
    /\ Accepted(prev) /\ prev.input = "ap-southeast-2"
    /\ Shown(last) /\ last.region = prev.result.region
    /\ last.output = "ap-southeast-2"

\* C10: error identity.  Two failed parses yield equal errors exactly when
\* their inputs are equal, and description() and Display give the same text
\* for an error.
C10_ErrorIdentity ==
    /\ (Rejected(prev) /\ Rejected(last))
          => (prev.result.error = last.result.error <=> prev.input = last.input)
    /\ (Rendered(prev) /\ Rendered(last) /\ prev.error = last.error)
          => prev.output = last.output

C10_Witness ==
    /\ prev.op = "description" /\ last.op = "error_fmt"
    /\ prev.error = last.error
    /\ prev.error = [message |-> "Not a valid AWS region: foo"]
    /\ prev.output = last.output

\* what a call returns when it is the only call ever made, by the tests' table
\* and the message format
Alone(q) ==
    IF q.op = "fmt" THEN [output |-> TestIdentifier[q.region]]
    ELSE IF q.input \in Identifiers
         THEN [ok |-> TRUE, region |-> CHOOSE r \in Region : TestIdentifier[r] = q.input]
         ELSE [ok |-> FALSE, error |-> [message |-> Prefix \o q.input]]

Returned(c) == pc[c] = "returned"

C8_Interleaving ==
    [][\A c \in Callers :
          /\ (pc[c] = "called" /\ pc'[c] = "returned") => rsp'[c] = Alone(req[c])
          /\ pc'[c] # pc[c] =>
                \A d \in Callers \ {c} :
                    /\ pc'[d] = pc[d]
                    /\ req'[d] = req[d]
                    /\ rsp'[d] = rsp[d]]_vars

C8_Witness ==
    /\ Returned(1) /\ req[1] = [op |-> "from_str", input |-> "US-EAST-1"]
    /\ ~rsp[1].ok
    /\ Returned(2) /\ req[2] = [op |-> "from_str", input |-> "us-east-1"]
    /\ rsp[2].ok

====
